---------------------------- MODULE Spec2Model ----------------------------
(***************************************************************************)
(* hb-ffmpeg-conv: a HandBrake preset is translated to an ffmpeg command   *)
(* line which is printed or run for every media file under a directory.    *)
(*                                                                         *)
(* A std::string is a sequence of one-character strings, so that the       *)
(* string functions of the program (split, join, quote, find, to_string)   *)
(* are computed character by character as the code computes them.          *)
(***************************************************************************)
EXTENDS Integers, Sequences, FiniteSets, TLC

(***************************************************************************)
(* String literals of the program.                                         *)
(***************************************************************************)
SP == " "
QUOTE == "\""
S_empty == << >>
S_ffmpeg == <<"f","f","m","p","e","g">>
S_analyzeduration == <<"-","a","n","a","l","y","z","e","d","u","r","a","t","i","o","n">>
S_probesize == <<"-","p","r","o","b","e","s","i","z","e">>
S_i == <<"-","i">>
S_cv == <<"-","c",":","v">>
S_preset == <<"-","p","r","e","s","e","t">>
S_r == <<"-","r">>
S_s == <<"-","s">>
S_profilev == <<"-","p","r","o","f","i","l","e",":","v">>
S_v == <<"-","v">>
S_error == <<"e","r","r","o","r">>
S_stats == <<"-","s","t","a","t","s">>
S_map == <<"-","m","a","p">>
S_0 == <<"0">>
S_1 == <<"1">>
S_2 == <<"2">>
S_pass == <<"-","p","a","s","s">>
S_f == <<"-","f">>
S_null == <<"n","u","l","l">>
S_auto == <<"a","u","t","o">>
S_x == <<"x">>
S_k == <<"k">>
S_dot == <<".">>
S_slash == <<"/">>
S_x265 == <<"x","2","6","5">>
S_x264 == <<"x","2","6","4">>
S_libx265 == <<"l","i","b","x","2","6","5">>
S_libx264 == <<"l","i","b","x","2","6","4">>
S_copy_colon == <<"c","o","p","y",":">>
S_ca_copy == <<"-","c",":","a"," ","c","o","p","y">>
S_ca_aac_ba == <<"-","c",":","a"," ","a","a","c"," ","-","b",":","a"," ">>
S_5point1 == <<"5","p","o","i","n","t","1">>
S_stereo == <<"s","t","e","r","e","o">>
S_mono == <<"m","o","n","o">>
S_ac6 == <<"-","a","c"," ","6">>
S_ac2 == <<"-","a","c"," ","2">>
S_ac1 == <<"-","a","c"," ","1">>
S_crf == <<"-","c","r","f">>
S_crf_sp == <<"-","c","r","f"," ">>
S_bv_sp == <<"-","b",":","v"," ">>
S_av_mkv == <<"a","v","_","m","k","v">>
S_av_mp4 == <<"a","v","_","m","p","4">>
S_mkv == <<"m","k","v">>
S_mp4 == <<"m","p","4">>
S_m4v == <<"m","4","v">>
S_amp == <<" ","&","&"," ">>

\* get_null_device(), the build that is not _WIN32
get_null_device == <<"/","d","e","v","/","n","u","l","l">>

\* the tuning values main passes to every command
analyze_duration == 100000000
probe_size == 100000000

(***************************************************************************)
(* std::to_string                                                          *)
(***************************************************************************)
DigitChar(d) ==
    CASE d = 0 -> "0" [] d = 1 -> "1" [] d = 2 -> "2" [] d = 3 -> "3"
      [] d = 4 -> "4" [] d = 5 -> "5" [] d = 6 -> "6" [] d = 7 -> "7"
      [] d = 8 -> "8" [] d = 9 -> "9"

RECURSIVE NatToString(_)
NatToString(n) ==
    IF n < 10 THEN <<DigitChar(n)>>
    ELSE Append(NatToString(n \div 10), DigitChar(n % 10))

\* std::to_string(int)
IntToString(n) == IF n < 0 THEN <<"-">> \o NatToString(0 - n) ELSE NatToString(n)

RECURSIVE PadDigits(_, _)
PadDigits(n, width) ==
    IF width = 0 THEN << >>
    ELSE Append(PadDigits(n \div 10, width - 1), DigitChar(n % 10))

\* std::to_string(double) prints "%f": the integer part, a dot and six
\* decimals.  A double is held as its number of millionths.
DoubleToString(micro) ==
    NatToString(micro \div 1000000) \o S_dot \o PadDigits(micro % 1000000, 6)

(***************************************************************************)
(* String helpers of the program.                                          *)
(***************************************************************************)
\* s.find(pat) != npos
Contains(s, pat) ==
    \E i \in 1..(Len(s) - Len(pat) + 1) : SubSeq(s, i, i + Len(pat) - 1) = pat

\* s.rfind(pat, 0) == 0
StartsWith(s, pat) == Len(s) >= Len(pat) /\ SubSeq(s, 1, Len(pat)) = pat

RECURSIVE SplitFrom(_, _, _, _)
SplitFrom(s, delimiter, i, token) ==
    IF i > Len(s)
    THEN (IF token # << >> THEN <<token>> ELSE << >>)
    ELSE IF s[i] = delimiter
         THEN (IF token # << >> THEN <<token>> ELSE << >>)
              \o SplitFrom(s, delimiter, i + 1, << >>)
         ELSE SplitFrom(s, delimiter, i + 1, Append(token, s[i]))

\* split_string: getline on the delimiter, empty tokens dropped
split_string(s, delimiter) == SplitFrom(s, delimiter, 1, << >>)

RECURSIVE join_string(_, _)
join_string(elements, delimiter) ==
    IF Len(elements) = 0 THEN << >>
    ELSE IF Len(elements) = 1 THEN elements[1]
    ELSE elements[1] \o delimiter \o join_string(Tail(elements), delimiter)

escape_string(s) ==
    IF \E i \in 1..Len(s) : s[i] = SP THEN <<QUOTE>> \o s \o <<QUOTE>> ELSE s

EscapeAll(cmd) == [i \in 1..Len(cmd) |-> escape_string(cmd[i])]

\* std::replace(result.begin(), result.end(), '_', ' ')
format_filename(basename, replace_underscores) ==
    IF replace_underscores
    THEN [i \in 1..Len(basename) |-> IF basename[i] = "_" THEN SP ELSE basename[i]]
    ELSE basename

(***************************************************************************)
(* The preset document.  A JSON value is absent, a string, an integer, a   *)
(* double (held as millionths) or a boolean.                               *)
(***************************************************************************)
JAbsent == [kind |-> "absent", s |-> << >>, n |-> 0]
JStr(str) == [kind |-> "string", s |-> str, n |-> 0]
JInt(i) == [kind |-> "int", s |-> << >>, n |-> i]
JDouble(micro) == [kind |-> "double", s |-> << >>, n |-> micro]
JBool(b) == [kind |-> "bool", s |-> << >>, n |-> IF b THEN 1 ELSE 0]

\* json::contains(key)
JContains(j) == j.kind # "absent"
\* json::value(key, "") on a string key
JValueStr(j) == IF JContains(j) THEN j.s ELSE S_empty
\* json::value(key, false)
JValueBool(j) == IF JContains(j) THEN j.n = 1 ELSE FALSE
\* std::to_string(preset[key].get<int>()), "0" when the key is absent
JIntField(j) == IF JContains(j) THEN IntToString(j.n) ELSE S_0
\* a key that holds a string or a number
JStrOrInt(j) ==
    IF JContains(j)
    THEN (IF j.kind = "string" THEN j.s ELSE IntToString(j.n))
    ELSE S_empty

\* the audio keys of an empty AudioList: json::object()
NoAudio == [AudioEncoder |-> JAbsent, AudioBitrate |-> JAbsent, AudioMixdown |-> JAbsent]

extract_preset_settings(preset) ==
    LET audio_list == preset.AudioList
        audio_settings == IF Len(audio_list) > 0 THEN audio_list[1] ELSE NoAudio
    IN  [ preset_name        |-> JValueStr(preset.PresetName),
          video_encoder      |-> JValueStr(preset.VideoEncoder),
          video_bitrate      |-> JIntField(preset.VideoAvgBitrate),
          video_preset       |-> JValueStr(preset.VideoPreset),
          video_profile      |-> JValueStr(preset.VideoProfile),
          video_framerate    |-> JStrOrInt(preset.VideoFramerate),
          video_quality      |-> IF JContains(preset.VideoQualitySlider)
                                 THEN DoubleToString(preset.VideoQualitySlider.n)
                                 ELSE S_0,
          video_quality_type |-> JStrOrInt(preset.VideoQualityType),
          video_multipass    |-> JValueBool(preset.VideoMultiPass),
          picture_width      |-> JIntField(preset.PictureWidth),
          picture_height     |-> JIntField(preset.PictureHeight),
          audio_encoder      |-> JValueStr(audio_settings.AudioEncoder),
          audio_bitrate      |-> JIntField(audio_settings.AudioBitrate),
          audio_mixdown      |-> JValueStr(audio_settings.AudioMixdown),
          container          |-> JValueStr(preset.FileFormat) ]

(***************************************************************************)
(* convert_to_ffmpeg_params                                                *)
(***************************************************************************)
\* faulty variant of QualityFragment: the sentinel is taken to be "1"
QualityFragment_sentinel1(settings) ==
    IF settings.video_quality_type = S_1
    THEN S_crf_sp \o settings.video_quality
    ELSE S_bv_sp \o settings.video_bitrate \o S_k

\* result.quality
QualityFragment(settings) ==
    IF settings.video_quality_type = S_2
    THEN S_crf_sp \o settings.video_quality
    ELSE S_bv_sp \o settings.video_bitrate \o S_k

convert_to_ffmpeg_params(settings) ==
    [ vcodec |-> IF settings.video_encoder = S_x265 THEN S_libx265
                 ELSE IF settings.video_encoder = S_x264 THEN S_libx264
                 ELSE settings.video_encoder,
      acodec |-> IF StartsWith(settings.audio_encoder, S_copy_colon)
                 THEN S_ca_copy
                 ELSE S_ca_aac_ba \o settings.audio_bitrate \o S_k,
      audio_channels |-> IF settings.audio_mixdown = S_5point1 THEN S_ac6
                         ELSE IF settings.audio_mixdown = S_stereo THEN S_ac2
                         ELSE IF settings.audio_mixdown = S_mono THEN S_ac1
                         ELSE S_empty,
      quality |-> QualityFragment(settings),
      format |-> IF settings.container = S_av_mkv THEN S_mkv
                 ELSE IF settings.container = S_av_mp4 THEN S_mp4
                 ELSE S_mkv,
      preset |-> settings.video_preset,
      profile |-> settings.video_profile,
      framerate |-> settings.video_framerate,
      resolution |-> settings.picture_width \o S_x \o settings.picture_height,
      multipass |-> settings.video_multipass,
      preset_name |-> settings.preset_name ]

(***************************************************************************)
(* The command builder.                                                    *)
(***************************************************************************)
\* faulty variant of build_ffmpeg_command: the profile is put before the audio
\* arguments and the stream map before the quiet-mode flags
build_ffmpeg_command_reordered(input_file, output_file, ffmpeg_params, verbose) ==
    <<S_ffmpeg, S_analyzeduration, IntToString(analyze_duration),
      S_probesize, IntToString(probe_size), S_i, input_file,
      S_cv, ffmpeg_params.vcodec>>
    \o split_string(ffmpeg_params.quality, SP)
    \o <<S_preset, ffmpeg_params.preset>>
    \o (IF ffmpeg_params.framerate # S_auto /\ ffmpeg_params.framerate # S_empty
        THEN <<S_r, ffmpeg_params.framerate>> ELSE << >>)
    \o <<S_s, ffmpeg_params.resolution>>
    \o (IF ffmpeg_params.profile # S_auto /\ ffmpeg_params.profile # S_empty
        THEN <<S_profilev, ffmpeg_params.profile>> ELSE << >>)
    \o split_string(ffmpeg_params.acodec, SP)
    \o (IF ffmpeg_params.audio_channels # S_empty
        THEN split_string(ffmpeg_params.audio_channels, SP) ELSE << >>)
    \o <<S_map, S_0>>
    \o (IF ~verbose THEN <<S_v, S_error, S_stats>> ELSE << >>)
    \o <<output_file>>

build_ffmpeg_command(input_file, output_file, ffmpeg_params, verbose) ==
    <<S_ffmpeg, S_analyzeduration, IntToString(analyze_duration),
      S_probesize, IntToString(probe_size), S_i, input_file,
      S_cv, ffmpeg_params.vcodec>>
    \o split_string(ffmpeg_params.quality, SP)
    \o <<S_preset, ffmpeg_params.preset>>
    \o (IF ffmpeg_params.framerate # S_auto /\ ffmpeg_params.framerate # S_empty
        THEN <<S_r, ffmpeg_params.framerate>> ELSE << >>)
    \o <<S_s, ffmpeg_params.resolution>>
    \o split_string(ffmpeg_params.acodec, SP)
    \o (IF ffmpeg_params.audio_channels # S_empty
        THEN split_string(ffmpeg_params.audio_channels, SP) ELSE << >>)
    \o (IF ffmpeg_params.profile # S_auto /\ ffmpeg_params.profile # S_empty
        THEN <<S_profilev, ffmpeg_params.profile>> ELSE << >>)
    \o (IF ~verbose THEN <<S_v, S_error, S_stats>> ELSE << >>)
    \o <<S_map, S_0>>
    \o <<output_file>>

\* faulty variant of build_multipass_commands: pass 1 keeps its output argument
build_multipass_commands_keep_output(input_file, output_file, ffmpeg_params, verbose) ==
    LET null_device == get_null_device
        pass1_cmd == build_ffmpeg_command(input_file, null_device, ffmpeg_params, verbose)
                     \o <<S_pass, S_1, S_f, S_null, null_device>>
        pass2_cmd == build_ffmpeg_command(input_file, output_file, ffmpeg_params, verbose)
                     \o <<S_pass, S_2>>
    IN  <<pass1_cmd, pass2_cmd>>

build_multipass_commands(input_file, output_file, ffmpeg_params, verbose) ==
    LET null_device == get_null_device
        pass1_built == build_ffmpeg_command(input_file, null_device, ffmpeg_params, verbose)
        pass1_cmd == SubSeq(pass1_built, 1, Len(pass1_built) - 1)
                     \o <<S_pass, S_1, S_f, S_null, null_device>>
        pass2_cmd == build_ffmpeg_command(input_file, output_file, ffmpeg_params, verbose)
                     \o <<S_pass, S_2>>
    IN  <<pass1_cmd, pass2_cmd>>

\* faulty variant of IsMultipass: the multipass flag alone decides
IsMultipass_flag_only(ffmpeg_params) == ffmpeg_params.multipass

\* process_file: bool is_multipass
IsMultipass(ffmpeg_params) ==
    ffmpeg_params.multipass /\ ~Contains(ffmpeg_params.quality, S_crf)

\* process_file: the arguments quoted and joined, two passes joined by " && "
DisplayString(cmds) ==
    join_string([i \in 1..Len(cmds) |-> join_string(EscapeAll(cmds[i]), <<SP>>)], S_amp)

\* execute_command: std::string command = join_string(cmd, " ")
ExecString(cmd) == join_string(cmd, <<SP>>)

\* the invocations process_file builds for one file
BuildCommands(input_file, output_file, ffmpeg_params, verbose) ==
    IF IsMultipass(ffmpeg_params)
    THEN build_multipass_commands(input_file, output_file, ffmpeg_params, verbose)
    ELSE <<build_ffmpeg_command(input_file, output_file, ffmpeg_params, verbose)>>

(***************************************************************************)
(* Paths and the file tree.  A path is a sequence of components; a file of *)
(* the tree is its directory below the input directory, its stem, its      *)
(* extension and the inode it names.                                       *)
(***************************************************************************)
PathString(comps) == join_string(comps, S_slash)

MEDIA_EXTENSIONS ==
    { <<"m","p","4">>, <<"m","k","v">>, <<"a","v","i">>, <<"m","o","v">>,
      <<"w","m","v">>, <<"f","l","v">>, <<"w","e","b","m">>, <<"m","4","v">>,
      <<"m","p","g">>, <<"m","p","e","g">>, <<"t","s">> }

\* std::tolower
LowerChar(c) ==
    CASE c = "A" -> "a" [] c = "B" -> "b" [] c = "C" -> "c" [] c = "D" -> "d"
      [] c = "E" -> "e" [] c = "F" -> "f" [] c = "G" -> "g" [] c = "H" -> "h"
      [] c = "I" -> "i" [] c = "J" -> "j" [] c = "K" -> "k" [] c = "L" -> "l"
      [] c = "M" -> "m" [] c = "N" -> "n" [] c = "O" -> "o" [] c = "P" -> "p"
      [] c = "Q" -> "q" [] c = "R" -> "r" [] c = "S" -> "s" [] c = "T" -> "t"
      [] c = "U" -> "u" [] c = "V" -> "v" [] c = "W" -> "w" [] c = "X" -> "x"
      [] c = "Y" -> "y" [] c = "Z" -> "z" [] OTHER -> c

ToLower(str) == [i \in 1..Len(str) |-> LowerChar(str[i])]

RECURSIVE find_media_files(_, _)
find_media_files(entries, recursive) ==
    IF entries = << >> THEN << >>
    ELSE LET entry == Head(entries)
             hit == /\ (recursive \/ entry.dir = << >>)
                    /\ entry.ext # S_empty
                    /\ ToLower(entry.ext) \in MEDIA_EXTENSIONS
         IN  (IF hit THEN <<entry>> ELSE << >>)
             \o find_media_files(Tail(entries), recursive)

\* entry.path().string() of a discovered file
InputString(input_dir, f) ==
    PathString(input_dir \o f.dir \o <<f.stem \o S_dot \o f.ext>>)

(***************************************************************************)
(* Bounds and the inputs the runs are drawn from.                          *)
(***************************************************************************)
\* the most entries a tree holds
MaxTree == 3

D_in == <<"i">>
D_out == <<"o">>
D_sub == <<"s">>
D_converted == <<"c","o","n","v","e","r","t","e","d">>

\* the files a tree may hold, in enumeration order
Candidates ==
    << [dir |-> << >>,     stem |-> <<"a","_","b">>, ext |-> <<"m","p","4">>, inode |-> 1],
       [dir |-> <<D_sub>>, stem |-> <<"c">>,         ext |-> <<"M","K","V">>, inode |-> 2],
       [dir |-> << >>,     stem |-> <<"a"," ","b">>, ext |-> <<"m","p","4">>, inode |-> 3],
       [dir |-> << >>,     stem |-> <<"n">>,         ext |-> <<"t","x","t">>, inode |-> 4] >>

Trees ==
    { SubSeq(Candidates, 1, k) :
        k \in 0..(IF MaxTree < Len(Candidates) THEN MaxTree ELSE Len(Candidates)) }

\* one path lies at or below another
IsBelow(path, root) ==
    /\ Len(root) <= Len(path)
    /\ SubSeq(path, 1, Len(root)) = root

\* what an earlier run has left in an output directory that lies below the
\* input directory: the output of the first candidate
EarlierOutputs(in_dir, out_dir) ==
    IF IsBelow(out_dir, in_dir)
    THEN << [dir |-> SubSeq(out_dir, Len(in_dir) + 1, Len(out_dir)),
             stem |-> <<"a"," ","b">>, ext |-> <<"m","p","4">>, inode |-> 5] >>
    ELSE << >>

\* the trees recursive_directory_iterator may find: the output directory is
\* walked with the rest when it lies below the input directory, and it holds
\* files only when it was there before this run
TreesOf(in_dir, out_dir, out_dir_is_old) ==
    Trees \cup
    (IF out_dir_is_old
     THEN { t \o EarlierOutputs(in_dir, out_dir) :
              t \in {u \in Trees : Len(u) + Len(EarlierOutputs(in_dir, out_dir)) <= MaxTree} }
     ELSE {})

S_slow == <<"s","l","o","w">>
S_main == <<"m","a","i","n">>
S_copy_aac == <<"c","o","p","y",":","a","a","c">>

FullDoc(encoder, qtype, multipass, preset, framerate, profile, audio, format) ==
    [ PresetName |-> JStr(<<"P">>), VideoEncoder |-> encoder,
      VideoAvgBitrate |-> JInt(15), VideoPreset |-> preset,
      VideoProfile |-> profile, VideoFramerate |-> framerate,
      VideoQualitySlider |-> JDouble(20000000), VideoQualityType |-> qtype,
      VideoMultiPass |-> multipass, PictureWidth |-> JInt(64),
      PictureHeight |-> JInt(48), AudioList |-> audio, FileFormat |-> format ]

Audio(encoder, mixdown) ==
    <<[AudioEncoder |-> encoder, AudioBitrate |-> JInt(16), AudioMixdown |-> mixdown]>>

Doc(qtype, multipass, preset) ==
    FullDoc(JStr(S_x265), qtype, multipass, preset, JStr(S_auto), JStr(S_auto),
            Audio(JStr(S_copy_aac), JStr(S_stereo)), JStr(S_av_mp4))

\* the presets of the batch runs
RunDocs ==
    { Doc(JInt(2), JBool(TRUE), JStr(S_slow)),
      Doc(JInt(0), JBool(TRUE), JStr(S_slow)),
      Doc(JAbsent, JAbsent, JAbsent) }

Perms == {"absent", "none", "readonly", "rw"}

VARIABLES
    pc,             \* where main (or process_file) stands
    args,           \* CmdOptions
    preset_doc,     \* the JSON document
    tree,           \* the files below the input directory, in enumeration order
    json_inode,     \* the inode of the preset document
    ignore_dirs,    \* the input directories (below input_dir) holding the ignore flag
    dirs,           \* the output directories that exist
    cout,           \* what std::cout writes to: "console" or "log"
    cout_buffer,    \* the saved streambuf: "null" or "console"
    ffmpeg_params, output_format, original_format,
    input_dir, output_dir,
    media_files, idx,
    file_count, skipped_count, error_count,
    cur,            \* process_file's locals and what it has done for this file
    done,           \* the same, for the files the loop has left
    mutations,      \* what the run has changed on disk or started
    exit_code,      \* -1 while running
    exit_reason,    \* which return or exit() ended the run
    b_args, b_cmd, b_line,  \* the builder's inputs, its single command, rendered
    b_cmds          \* the builder's two passes

vars == <<pc, args, preset_doc, tree, json_inode, ignore_dirs, dirs, cout,
          cout_buffer, ffmpeg_params, output_format, original_format,
          input_dir, output_dir, media_files, idx, file_count, skipped_count,
          error_count, cur, done, mutations, exit_code, exit_reason,
          b_args, b_cmd, b_line, b_cmds>>

disk == <<tree, json_inode, ignore_dirs>>
builder == <<b_args, b_cmd, b_line, b_cmds>>
counters == <<file_count, skipped_count, error_count>>
loaded == <<ffmpeg_params, output_format, original_format>>
places == <<input_dir, output_dir>>

NoDoc == Doc(JAbsent, JAbsent, JAbsent)
NoParams == convert_to_ffmpeg_params(extract_preset_settings(NoDoc))

NoCur ==
    [ file |-> 0, gate |-> "none", input_file |-> S_empty,
      output_subdir |-> << >>, output_file |-> S_empty,
      mkdir |-> "na", access |-> "na", perm |-> "na",
      built |-> FALSE, is_multipass |-> FALSE, n_cmds |-> 0, shown |-> S_empty,
      pass |-> 0, runs |-> << >>, probed |-> 0, renamed |-> "na", result |-> -1 ]

NoArgs ==
    [ recursive |-> FALSE, execute |-> FALSE, dry_run |-> FALSE,
      show_preset |-> FALSE, force_m4v |-> FALSE,
      no_underscore_replace |-> FALSE, verbose |-> FALSE,
      input_dir |-> << >>, output_dir |-> << >>, log_file |-> FALSE ]

\* the variables main has not touched yet
Fresh ==
    /\ tree = << >>
    /\ json_inode = 0
    /\ ignore_dirs = {}
    /\ cout = "console"
    /\ cout_buffer = "null"
    /\ ffmpeg_params = NoParams
    /\ output_format = S_empty
    /\ original_format = S_empty
    /\ input_dir = << >>
    /\ output_dir = << >>
    /\ media_files = << >>
    /\ idx = 1
    /\ file_count = 0
    /\ skipped_count = 0
    /\ error_count = 0
    /\ cur = NoCur
    /\ done = << >>
    /\ mutations = {}
    /\ exit_code = -1
    /\ exit_reason = ""
    /\ b_cmd = << >>
    /\ b_line = S_empty
    /\ b_cmds = << >>

Init ==
    /\ pc = "start"
    /\ args \in [ recursive : BOOLEAN, execute : BOOLEAN, dry_run : BOOLEAN,
                  show_preset : BOOLEAN, force_m4v : BOOLEAN,
                  no_underscore_replace : {FALSE}, verbose : {FALSE},
                  input_dir : {<<D_in>>}, output_dir : {<<D_out>>},
                  log_file : BOOLEAN ]
               \cup
               \* no -o: the output directory is the default one
               [ recursive : BOOLEAN, execute : BOOLEAN, dry_run : {FALSE},
                  show_preset : {FALSE}, force_m4v : {FALSE},
                  no_underscore_replace : {FALSE}, verbose : {FALSE},
                  input_dir : {<<D_in>>}, output_dir : {<< >>},
                  log_file : {FALSE} ]
    /\ preset_doc = NoDoc
    /\ b_args = [input |-> S_empty, output |-> S_empty, verbose |-> FALSE]
    /\ dirs \in IF args.output_dir = << >>
                THEN { {}, {<<D_in>>, <<D_in, D_converted>>} }
                ELSE { {}, {<<D_out>>}, {<<D_out>>, <<D_out, D_sub>>} }
    /\ Fresh

(***************************************************************************)
(* main, up to the loop.                                                   *)
(***************************************************************************)
\* exit(code) or return code from main
Exit(code, reason) ==
    /\ pc' = "exit"
    /\ exit_code' = code
    /\ exit_reason' = reason

Running == UNCHANGED <<exit_code, exit_reason>>

\* system("ffmpeg -version > /dev/null 2>&1") != 0
CheckFfmpeg ==
    /\ pc = "start"
    /\ \E installed \in BOOLEAN :
         IF installed THEN pc' = "ffprobe" /\ Running ELSE Exit(1, "tool")
    /\ UNCHANGED <<args, preset_doc, disk, dirs, cout, cout_buffer, loaded, places, media_files,
                   idx, counters, cur, done, mutations, builder>>

\* system("ffprobe -version > /dev/null 2>&1") != 0
CheckFfprobe ==
    /\ pc = "ffprobe"
    /\ \E installed \in BOOLEAN :
         IF installed THEN pc' = "log" /\ Running ELSE Exit(1, "tool")
    /\ UNCHANGED <<args, preset_doc, disk, dirs, cout, cout_buffer, loaded, places, media_files,
                   idx, counters, cur, done, mutations, builder>>

\* log_file.open(args.log_file) and the swap of std::cout's buffer
SetupLog ==
    /\ pc = "log"
    /\ pc' = "load"
    /\ IF args.log_file
       THEN \E opened \in BOOLEAN :
              IF opened
              THEN /\ cout_buffer' = cout
                   /\ cout' = "log"
                   /\ mutations' = mutations \cup {[kind |-> "logfile", target |-> S_empty]}
              ELSE UNCHANGED <<cout, cout_buffer, mutations>>
       ELSE UNCHANGED <<cout, cout_buffer, mutations>>
    /\ UNCHANGED <<args, preset_doc, disk, dirs, loaded, places, media_files, idx, counters, cur,
                   done, exit_code, exit_reason, builder>>

\* load_json_preset, extract_preset_settings, convert_to_ffmpeg_params and
\* the choice of the output format
LoadPreset ==
    /\ pc = "load"
    /\ \E readable \in BOOLEAN, document \in RunDocs :
         IF readable
         THEN LET params == convert_to_ffmpeg_params(extract_preset_settings(document))
              IN  /\ preset_doc' = document
                  /\ ffmpeg_params' = params
                  /\ original_format' = params.format
                  /\ output_format' = IF args.force_m4v /\ ~args.execute
                                      THEN S_m4v ELSE params.format
                  /\ pc' = "preset"
                  /\ Running
         ELSE /\ Exit(1, "document")
              /\ UNCHANGED <<loaded, preset_doc>>
    /\ UNCHANGED <<args, disk, dirs, cout, cout_buffer, places, media_files, idx,
                   counters, cur, done, mutations, builder>>

\* faulty variant of ShowPresetOnly: the display does not end an executing run
ShowPresetOnly_unless_execute == args.show_preset /\ ~args.execute

\* main: if (args.show_preset)
ShowPresetOnly == args.show_preset

\* if (args.show_preset) { show_preset(...); return 0; }
ShowPreset ==
    /\ pc = "preset"
    /\ ShowPresetOnly
    /\ Exit(0, "show_preset")
    /\ UNCHANGED <<args, preset_doc, disk, dirs, cout, cout_buffer, loaded, places, media_files,
                   idx, counters, cur, done, mutations, builder>>

\* the double "converted" of an output directory replaced by a single one
RECURSIVE CollapseConverted(_)
CollapseConverted(path) ==
    IF Len(path) < 2 THEN path
    ELSE IF path[1] = D_converted /\ path[2] = D_converted
         THEN Tail(path)
         ELSE <<path[1]>> \o CollapseConverted(Tail(path))

\* the defaults of the two directories, then the output root is created
ResolveDirs ==
    /\ pc = "preset"
    /\ ~ShowPresetOnly
    /\ LET in_dir == IF args.input_dir = << >> THEN <<D_in>> ELSE args.input_dir
           out_dir == CollapseConverted(IF args.output_dir = << >>
                                        THEN in_dir \o <<D_converted>>
                                        ELSE args.output_dir)
       IN  /\ input_dir' = in_dir
           /\ output_dir' = out_dir
           /\ IF out_dir \notin dirs /\ ~args.dry_run
              THEN \E created \in BOOLEAN :
                     IF created
                     THEN /\ dirs' = dirs \cup {SubSeq(out_dir, 1, k) : k \in 1..Len(out_dir)}
                          /\ mutations' = mutations \cup
                               {[kind |-> "mkdir", target |-> PathString(out_dir)]}
                          /\ pc' = "discover"
                          /\ Running
                     ELSE /\ Exit(1, "output_dir")
                          /\ UNCHANGED <<dirs, mutations>>
              ELSE /\ pc' = "discover"
                   /\ Running
                   /\ UNCHANGED <<dirs, mutations>>
    /\ UNCHANGED <<args, preset_doc, disk, cout, cout_buffer, loaded, media_files, idx, counters,
                   cur, done, builder>>

\* find_media_files walks the tree that is on disk
Discover ==
    /\ pc = "discover"
    /\ tree' \in TreesOf(input_dir, output_dir,
                         /\ output_dir \in dirs
                         /\ [kind |-> "mkdir", target |-> PathString(output_dir)]
                              \notin mutations)
    /\ json_inode' \in {0, 1}
    /\ ignore_dirs' \in SUBSET {<< >>, <<D_sub>>}
    /\ media_files' = find_media_files(tree', args.recursive)
    /\ idx' = 1
    /\ pc' = "loop"
    /\ UNCHANGED <<args, preset_doc, dirs, cout, cout_buffer, loaded, places, counters, cur,
                   done, mutations, exit_code, exit_reason, builder>>

(***************************************************************************)
(* The loop of main and process_file.                                      *)
(***************************************************************************)
InLoop == pc = "loop" /\ idx <= Len(media_files)

\* fs::equivalent(fs::path(file), fs::path(args.json_file))
Equivalent(f) == f.inode = json_inode

\* faulty variant of should_ignore_file: the flag is looked for in the input root
should_ignore_file_root(f) == << >> \in ignore_dirs

should_ignore_file(f) == f.dir \in ignore_dirs

\* what is kept of a file once the loop has left it: the strings it printed
\* and ran and the permissions it saw are gone with process_file's locals
Kept(rec) ==
    [rec EXCEPT !.shown = S_empty, !.perm = "na",
                !.runs = [k \in 1..Len(rec.runs) |->
                            [rec.runs[k] EXCEPT !.args = << >>, !.command = S_empty]]]

\* faulty variant of Finish: a failed file is counted nowhere
Finish_uncounted_failure(rec, result) ==
    /\ done' = Append(done, Kept([rec EXCEPT !.result = result]))
    /\ cur' = NoCur
    /\ idx' = idx + 1
    /\ pc' = "loop"
    /\ IF result = 0
       THEN file_count' = file_count + 1 /\ UNCHANGED <<skipped_count, error_count>>
       ELSE UNCHANGED <<file_count, skipped_count, error_count>>

\* faulty variant of Finish: a failed file ends the loop
Finish_abort(rec, result) ==
    /\ done' = Append(done, Kept([rec EXCEPT !.result = result]))
    /\ cur' = NoCur
    /\ idx' = IF result = 0 THEN idx + 1 ELSE Len(media_files) + 1
    /\ pc' = "loop"
    /\ IF result = 0
       THEN file_count' = file_count + 1 /\ UNCHANGED <<skipped_count, error_count>>
       ELSE error_count' = error_count + 1 /\ UNCHANGED <<file_count, skipped_count>>

\* the file leaves the loop, counted by what process_file returned
Finish(rec, result) ==
    /\ done' = Append(done, Kept([rec EXCEPT !.result = result]))
    /\ cur' = NoCur
    /\ idx' = idx + 1
    /\ pc' = "loop"
    /\ IF result = 0
       THEN file_count' = file_count + 1 /\ UNCHANGED <<skipped_count, error_count>>
       ELSE error_count' = error_count + 1 /\ UNCHANGED <<file_count, skipped_count>>

SkipJson ==
    /\ InLoop
    /\ Equivalent(media_files[idx])
    /\ done' = Append(done, [NoCur EXCEPT !.file = idx, !.gate = "json"])
    /\ idx' = idx + 1
    /\ UNCHANGED <<pc, args, preset_doc, disk, dirs, cout, cout_buffer, loaded, places, media_files,
                   counters, cur, mutations, exit_code, exit_reason, builder>>

SkipIgnored ==
    /\ InLoop
    /\ ~Equivalent(media_files[idx])
    /\ should_ignore_file(media_files[idx])
    /\ done' = Append(done, [NoCur EXCEPT !.file = idx, !.gate = "ignored"])
    /\ skipped_count' = skipped_count + 1
    /\ idx' = idx + 1
    /\ UNCHANGED <<pc, args, preset_doc, disk, dirs, cout, cout_buffer, loaded, places, media_files,
                   file_count, error_count, cur, mutations, exit_code, exit_reason, builder>>

\* process_file: the mirrored output directory of a file
OutputSubdir(f) == IF f.dir # << >> THEN output_dir \o f.dir ELSE output_dir

\* process_file: the output path of a file
OutputFile(f) ==
    LET formatted_basename == format_filename(f.stem, ~args.no_underscore_replace)
        actual_format == IF args.force_m4v /\ args.execute
                         THEN original_format ELSE output_format
    IN  PathString(OutputSubdir(f)) \o S_slash \o formatted_basename \o S_dot \o actual_format

\* faulty variant of CreatesDirectories: the directory is created in a dry run too
CreatesDirectories_always == TRUE

\* process_file: if (!dry_run) around fs::create_directories
CreatesDirectories == ~args.dry_run

\* the file has passed the gates: process_file computes the output path and
\* creates the output subdirectory
EnsureSubdir ==
    /\ InLoop
    /\ ~Equivalent(media_files[idx])
    /\ ~should_ignore_file(media_files[idx])
    /\ LET f == media_files[idx]
           rec == [NoCur EXCEPT !.file = idx, !.gate = "pass",
                                !.input_file = InputString(input_dir, f),
                                !.output_subdir = OutputSubdir(f),
                                !.output_file = OutputFile(f)]
       IN  IF OutputSubdir(f) \notin dirs
           THEN IF CreatesDirectories
                THEN \E created \in BOOLEAN :
                       IF created
                       THEN /\ dirs' = dirs \cup {SubSeq(OutputSubdir(f), 1, k) :
                                                    k \in 1..Len(OutputSubdir(f))}
                            /\ mutations' = mutations \cup
                                 {[kind |-> "mkdir", target |-> PathString(OutputSubdir(f))]}
                            /\ cur' = [rec EXCEPT !.mkdir = "created"]
                            /\ pc' = "access"
                            /\ UNCHANGED <<done, idx, counters>>
                       ELSE /\ Finish([rec EXCEPT !.mkdir = "failed"], 1)
                            /\ UNCHANGED <<dirs, mutations>>
                ELSE /\ cur' = [rec EXCEPT !.mkdir = "announced"]
                     /\ pc' = "access"
                     /\ UNCHANGED <<dirs, mutations, done, idx, counters>>
           ELSE /\ cur' = rec
                /\ pc' = "access"
                /\ UNCHANGED <<dirs, mutations, done, idx, counters>>
    /\ UNCHANGED <<args, preset_doc, disk, cout, cout_buffer, loaded, places, media_files,
                   exit_code, exit_reason, builder>>

\* process_file: if (!dry_run && execute) around check_file_access
ChecksAccess == ~args.dry_run /\ args.execute

\* check_file_access: what it finds, given whether the output directory is a
\* directory, the permissions of the target file ("absent" when there is
\* none) and whether the test file can be opened for writing
check_file_access(is_directory, perm, writable) ==
    IF ~is_directory THEN "no_dir"
    ELSE IF perm = "none" THEN "perm_none"
    ELSE IF ~writable THEN "not_writable"
    ELSE "ok"

CheckAccess ==
    /\ pc = "access"
    /\ IF ChecksAccess
       THEN \E perm \in Perms, writable \in BOOLEAN :
              LET found == check_file_access(cur.output_subdir \in dirs, perm, writable)
                  rec == [cur EXCEPT !.access = found, !.perm = perm]
              IN  IF found = "ok"
                  THEN /\ cur' = rec
                       /\ pc' = "build"
                       /\ mutations' = mutations \cup
                            {[kind |-> "write_test", target |-> PathString(cur.output_subdir)]}
                       /\ UNCHANGED <<done, idx, counters>>
                  ELSE /\ Finish(rec, 1)
                       /\ UNCHANGED mutations
       ELSE /\ pc' = "build"
            /\ UNCHANGED <<cur, done, idx, counters, mutations>>
    /\ UNCHANGED <<args, preset_doc, disk, dirs, cout, cout_buffer, loaded, places, media_files,
                   exit_code, exit_reason, builder>>

\* faulty variant of Dispatch: execute is looked at before dry_run
Dispatch_execute_first ==
    IF args.execute THEN "execute" ELSE IF args.dry_run THEN "dry_run" ELSE "plan"

\* process_file: if (dry_run) ... else if (execute) ... else ...
Dispatch ==
    IF args.dry_run THEN "dry_run" ELSE IF args.execute THEN "execute" ELSE "plan"

\* the command(s) are built and printed; in a dry run and in plan mode that
\* is all, and process_file returns 0
BuildAndPrint ==
    /\ pc = "build"
    /\ LET is_multipass == IsMultipass(ffmpeg_params)
           cmds == IF is_multipass
                   THEN build_multipass_commands(cur.input_file, cur.output_file,
                                                 ffmpeg_params, args.verbose)
                   ELSE <<build_ffmpeg_command(cur.input_file, cur.output_file,
                                               ffmpeg_params, args.verbose)>>
           rec == [cur EXCEPT !.built = TRUE, !.is_multipass = is_multipass,
                              !.n_cmds = Len(cmds), !.shown = DisplayString(cmds)]
       IN  IF Dispatch = "execute"
           THEN /\ cur' = [rec EXCEPT !.pass = 1]
                /\ pc' = "exec"
                /\ UNCHANGED <<done, idx, counters>>
           ELSE Finish(rec, 0)
    /\ UNCHANGED <<args, preset_doc, disk, dirs, cout, cout_buffer, loaded, places, media_files,
                   mutations, exit_code, exit_reason, builder>>

\* faulty variant of AfterPass: the passes go on after a failed one
AfterPass_no_break(result_code, pass, n_passes) ==
    IF pass < n_passes THEN "exec"
    ELSE IF result_code # 0 THEN "failed" ELSE "succeeded"

\* process_file: the loop over the passes breaks at the first nonzero code
AfterPass(result_code, pass, n_passes) ==
    IF result_code # 0 THEN "failed"
    ELSE IF pass < n_passes THEN "exec"
    ELSE "succeeded"

\* one execute_command: system() blocks until the exit code is there
RunPass ==
    /\ pc = "exec"
    /\ LET ffmpeg_cmds == IF cur.is_multipass
                          THEN build_multipass_commands(cur.input_file, cur.output_file,
                                                        ffmpeg_params, args.verbose)
                          ELSE <<build_ffmpeg_command(cur.input_file, cur.output_file,
                                                      ffmpeg_params, args.verbose)>>
           cmd == ffmpeg_cmds[cur.pass]
       IN  \E result_code \in {0, 1} :
             /\ cur' = [cur EXCEPT
                          !.runs = Append(@, [pass |-> cur.pass, rc |-> result_code,
                                              args |-> cmd, command |-> ExecString(cmd)]),
                          !.pass = IF AfterPass(result_code, cur.pass, Len(ffmpeg_cmds)) = "exec"
                                   THEN @ + 1 ELSE @]
             /\ pc' = AfterPass(result_code, cur.pass, Len(ffmpeg_cmds))
             /\ mutations' = mutations \cup {[kind |-> "invoke", target |-> cur.input_file]}
    /\ UNCHANGED <<args, preset_doc, disk, dirs, cout, cout_buffer, loaded, places, media_files,
                   idx, counters, done, exit_code, exit_reason, builder>>

\* rename_to_m4v: what it does, given whether the produced file exists and
\* whether fs::rename goes through; it returns true for "announced" and "ok"
rename_to_m4v(dry_run, exists, renames) ==
    IF dry_run THEN "announced"
    ELSE IF exists THEN (IF renames THEN "ok" ELSE "failed")
    ELSE "missing"

\* faulty variant of ReturnAfterRename: a rename that failed fails the file
ReturnAfterRename_strict(renamed) ==
    IF renamed \in {"failed", "missing"} THEN 1 ELSE 0

\* process_file: a false rename_to_m4v is only warned about, then return 0
ReturnAfterRename(renamed) == 0

\* result_code == 0: the rename of a forced m4v, then return 0
Succeeded ==
    /\ pc = "succeeded"
    /\ IF args.force_m4v
       THEN \E exists \in BOOLEAN, renames \in BOOLEAN :
              LET renamed == rename_to_m4v(args.dry_run, exists, renames)
              IN  /\ Finish([cur EXCEPT !.renamed = renamed], ReturnAfterRename(renamed))
                  /\ mutations' = IF renamed = "ok"
                                  THEN mutations \cup
                                         {[kind |-> "rename", target |-> cur.output_file]}
                                  ELSE mutations
       ELSE Finish(cur, 0) /\ UNCHANGED mutations
    /\ UNCHANGED <<args, preset_doc, disk, dirs, cout, cout_buffer, loaded, places, media_files,
                   exit_code, exit_reason, builder>>

\* faulty variant of get_file_info: the input is not probed
get_file_info_never(rec) == rec

\* get_file_info: one ffprobe of the input file, which only reads it
get_file_info(rec) == [rec EXCEPT !.probed = @ + 1]

\* result_code != 0: get_file_info probes the input, then return 1
Failed ==
    /\ pc = "failed"
    /\ Finish(get_file_info(cur), 1)
    /\ UNCHANGED <<args, preset_doc, disk, dirs, cout, cout_buffer, loaded, places, media_files,
                   mutations, exit_code, exit_reason, builder>>

\* faulty variant of ExitStatus: the test of the failure count is inverted
ExitStatus_inverted == IF error_count > 0 THEN 0 ELSE 1

\* return (error_count > 0) ? 1 : 0
ExitStatus == IF error_count > 0 THEN 1 ELSE 0

\* the summary, the restored std::cout and the exit status
Summary ==
    /\ pc = "loop"
    /\ idx > Len(media_files)
    /\ IF cout_buffer # "null"
       THEN cout' = cout_buffer
       ELSE UNCHANGED cout
    /\ Exit(ExitStatus, "summary")
    /\ UNCHANGED <<args, preset_doc, disk, dirs, cout_buffer, loaded, places, media_files, idx,
                   counters, cur, done, mutations, builder>>

Next ==
    \/ CheckFfmpeg
    \/ CheckFfprobe
    \/ SetupLog
    \/ LoadPreset
    \/ ShowPreset
    \/ ResolveDirs
    \/ Discover
    \/ SkipJson
    \/ SkipIgnored
    \/ EnsureSubdir
    \/ CheckAccess
    \/ BuildAndPrint
    \/ RunPass
    \/ Succeeded
    \/ Failed
    \/ Summary

Spec == Init /\ [][Next]_vars

(***************************************************************************)
(* The translator and the builder on their own: a preset and the paths of  *)
(* one file are drawn, translated, built into a command and rendered.      *)
(***************************************************************************)
S_vp9 == <<"v","p","9">>
S_av_aac == <<"a","v","_","a","a","c">>

BuildDocs ==
    { FullDoc(encoder, qtype, multipass, preset, framerate, profile, audio, format) :
        encoder \in {JStr(S_x265), JStr(S_vp9)},
        qtype \in {JAbsent, JStr(S_2), JInt(2), JInt(0), JStr(S_empty)},
        multipass \in {JAbsent, JBool(TRUE)},
        preset \in {JAbsent, JStr(S_slow)},
        framerate \in {JAbsent, JStr(S_auto), JInt(30)},
        profile \in {JStr(S_auto), JStr(S_main)},
        audio \in {<< >>, Audio(JStr(S_copy_aac), JStr(S_5point1)), Audio(JStr(S_av_aac), JStr(S_mono))},
        format \in {JAbsent, JStr(S_av_mp4)} }

BuildArgs ==
    { [input |-> <<"i","/","a"," ","b",".","m","p","4">>,
       output |-> <<"o","/","a"," ","b",".","m","k","v">>, verbose |-> v] : v \in BOOLEAN }
    \cup
    { [input |-> <<"i","/","c",".","m","p","4">>,
       output |-> <<"o","/","c",".","m","k","v">>, verbose |-> v] : v \in BOOLEAN }

InitBuild ==
    /\ pc = "b_start"
    /\ args = NoArgs
    /\ preset_doc \in BuildDocs
    /\ b_args \in BuildArgs
    /\ dirs = {}
    /\ Fresh

B_Translate ==
    /\ pc = "b_start"
    /\ ffmpeg_params' = convert_to_ffmpeg_params(extract_preset_settings(preset_doc))
    /\ pc' = "b_params"
    /\ UNCHANGED <<args, preset_doc, disk, dirs, cout, cout_buffer, output_format,
                   original_format, places, media_files, idx, counters, cur,
                   done, mutations, exit_code, exit_reason, builder>>

B_BuildSingle ==
    /\ pc = "b_params"
    /\ b_cmd' = build_ffmpeg_command(b_args.input, b_args.output, ffmpeg_params,
                                     b_args.verbose)
    /\ pc' = "b_built"
    /\ UNCHANGED <<args, preset_doc, disk, dirs, cout, cout_buffer, loaded,
                   places, media_files, idx, counters, cur, done, mutations,
                   exit_code, exit_reason, b_args, b_line, b_cmds>>

\* the command rendered as process_file renders it: quoted, then joined
B_Render ==
    /\ pc = "b_built"
    /\ b_line' = join_string(EscapeAll(b_cmd), <<SP>>)
    /\ pc' = "b_rendered"
    /\ UNCHANGED <<args, preset_doc, disk, dirs, cout, cout_buffer, loaded,
                   places, media_files, idx, counters, cur, done, mutations,
                   exit_code, exit_reason, b_args, b_cmd, b_cmds>>

B_BuildMultipass ==
    /\ pc = "b_params"
    /\ b_cmds' = build_multipass_commands(b_args.input, b_args.output, ffmpeg_params,
                                          b_args.verbose)
    /\ pc' = "b_multi"
    /\ UNCHANGED <<args, preset_doc, disk, dirs, cout, cout_buffer, loaded,
                   places, media_files, idx, counters, cur, done, mutations,
                   exit_code, exit_reason, b_args, b_cmd, b_line>>

NextBuild ==
    \/ B_Translate
    \/ B_BuildSingle
    \/ B_Render
    \/ B_BuildMultipass

SpecBuild == InitBuild /\ [][NextBuild]_vars

(***************************************************************************)
(* Properties.                                                             *)
(***************************************************************************)
\* the files the loop has left, and the one process_file is working on
Recs == {done[i] : i \in 1..Len(done)} \cup (IF cur.file # 0 THEN {cur} ELSE {})

Failures == {i \in 1..Len(done) : done[i].result = 1}

\* the first argument of the quality fragment
QualityFlag(params) == split_string(params.quality, SP)[1]
S_bv == <<"-","b",":","v">>
IsBitrateForm(params) == QualityFlag(params) = S_bv
IsConstantQualityForm(params) == QualityFlag(params) = S_crf

\* C1: in execute mode the passes of a multipass file run in order, pass 2
\* only after pass 1 has returned 0; after a nonzero pass 1 no pass 2 is run
\* and the file is counted as failed.
C1_Pass2OnlyAfterPass1Succeeded ==
    /\ \A r \in Recs :
         r.is_multipass =>
           /\ Len(r.runs) <= 2
           /\ \A k \in 1..Len(r.runs) : r.runs[k].pass = k
           /\ (Len(r.runs) = 2 => r.runs[1].rc = 0)
           /\ (Len(r.runs) >= 1 /\ r.runs[1].rc # 0 => Len(r.runs) = 1 /\ r.result # 0)
           /\ (r.runs # << >> => Dispatch = "execute")
    /\ \A i \in 1..Len(done) :
         done[i].is_multipass /\ done[i].runs # << >> /\ done[i].runs[1].rc # 0
           => i \in Failures
    /\ error_count = Cardinality(Failures)
    /\ \A k \in 1..Len(cur.runs) :
         cur.is_multipass =>
           LET a == cur.runs[k].args
           IN  IF k = 1
               THEN SubSeq(a, Len(a) - 4, Len(a)) = <<S_pass, S_1, S_f, S_null, get_null_device>>
               ELSE SubSeq(a, Len(a) - 2, Len(a)) = <<cur.output_file, S_pass, S_2>>

C1_Witness ==
    \E i, j \in 1..Len(done) :
        /\ done[i].is_multipass /\ Len(done[i].runs) = 2 /\ done[i].runs[1].rc = 0
        /\ done[j].is_multipass /\ Len(done[j].runs) = 1 /\ done[j].runs[1].rc = 1
        /\ done[j].result = 1

\* C2: a file that fails (its directory cannot be created, its access check
\* fails, the transcoder returns nonzero) does not end the loop: the next
\* file is gated and processed, the loop is never stuck, and the run ends
\* only through the summary, with every discovered file handled.
C2_FailureNeverAbortsBatch ==
    /\ \A i \in Failures :
         i < Len(media_files) =>
            \/ Len(done) > i
            \/ cur.file = i + 1
            \/ (pc = "loop" /\ idx = i + 1)
    /\ (pc = "loop" => ENABLED (SkipJson \/ SkipIgnored \/ EnsureSubdir \/ Summary))
    /\ (pc = "access" => ENABLED CheckAccess)
    /\ (pc = "exec" => cur.pass \in 1..cur.n_cmds)
    /\ (pc = "succeeded" => ENABLED Succeeded)
    /\ (pc = "failed" => ENABLED Failed)
    /\ (pc = "exit" /\ (media_files # << >> \/ exit_reason = "summary")) =>
         /\ exit_reason = "summary"
         /\ Len(done) = Len(media_files)
         /\ \A i \in 1..Len(done) :
              /\ done[i].file = i
              /\ done[i].gate \in {"json", "ignored", "pass"}
              /\ (done[i].gate = "pass" /\ done[i].result = 0 => done[i].built)

C2_Witness ==
    /\ pc = "exit"
    /\ exit_reason = "summary"
    /\ Len(done) = 2
    /\ done[1].result = 1
    /\ done[1].access = "not_writable"
    /\ done[2].mkdir = "created"
    /\ done[2].result = 0
    /\ Len(done[2].runs) = 1

\* C3: with the dry-run flag set, also together with execute, nothing on
\* disk is changed and nothing is run: no directory is created, no file is
\* renamed, no write test is made, no transcoder or probe is started, and
\* each command is only printed.  (The file named by the log option is the
\* sink of the printed text itself and is opened before any mode is looked at.)
C3_DryRunChangesNothing ==
    args.dry_run =>
      /\ \A m \in mutations : m.kind = "logfile"
      /\ \A r \in Recs :
           /\ r.runs = << >>
           /\ r.probed = 0
           /\ r.access = "na"
           /\ r.renamed = "na"
           /\ r.mkdir \in {"na", "announced"}
           /\ r.result # 1
      /\ \A i \in 1..Len(done) : done[i].gate = "pass" => done[i].built
      /\ pc \notin {"exec", "succeeded", "failed"}
      /\ (pc = "exit" /\ exit_reason = "summary" /\ output_dir \notin dirs) => dirs = {}

C3_Witness ==
    /\ args.dry_run /\ args.execute /\ args.force_m4v
    /\ pc = "exit"
    /\ exit_reason = "summary"
    /\ output_dir \notin dirs
    /\ Len(done) = 2
    /\ \A i \in 1..2 : done[i].built /\ done[i].mkdir = "announced"

\* C4: a file gets two invocations iff the multipass flag is set and the
\* quality fragment is the bitrate form; with the constant-quality form it
\* gets exactly one.  What is printed and what is run follow the same decision.
C4_EffectiveMultipass ==
    /\ \A r \in Recs :
         r.built =>
           /\ r.n_cmds \in {1, 2}
           /\ (r.n_cmds = 2 <=> (ffmpeg_params.multipass /\ IsBitrateForm(ffmpeg_params)))
           /\ (IsConstantQualityForm(ffmpeg_params) => r.n_cmds = 1)
           /\ Len(r.runs) <= r.n_cmds
           /\ (r.result = 0 /\ Dispatch = "execute" => Len(r.runs) = r.n_cmds)
    /\ cur.built =>
         /\ (Contains(cur.shown, S_amp) <=> cur.n_cmds = 2)
         /\ StartsWith(cur.shown,
                       DisplayString([k \in 1..Len(cur.runs) |-> cur.runs[k].args]))
         /\ (pc \in {"succeeded"} =>
               cur.shown = DisplayString([k \in 1..Len(cur.runs) |-> cur.runs[k].args]))

C4_Witness ==
    \E i \in 1..Len(done) :
        /\ done[i].built
        /\ ffmpeg_params.multipass
        /\ IsConstantQualityForm(ffmpeg_params)
        /\ done[i].n_cmds = 1
        /\ Len(done[i].runs) = 1
        /\ done[i].result = 0

\* C5: the translated quality fragment has exactly one form: -crf with the
\* quality value when the quality mode is the string "2", -b:v with the
\* video bitrate for every other mode, the absent and the empty one too.
C5_OneQualityForm ==
    pc # "b_start" =>
      LET settings == extract_preset_settings(preset_doc)
          parts == split_string(ffmpeg_params.quality, SP)
      IN  /\ Len(parts) = 2
          /\ IsConstantQualityForm(ffmpeg_params) # IsBitrateForm(ffmpeg_params)
          /\ IF settings.video_quality_type = S_2
             THEN /\ IsConstantQualityForm(ffmpeg_params)
                  /\ parts[2] = settings.video_quality
                  /\ ~Contains(ffmpeg_params.quality, S_bv)
             ELSE /\ IsBitrateForm(ffmpeg_params)
                  /\ parts[2] = settings.video_bitrate \o S_k
                  /\ ~Contains(ffmpeg_params.quality, S_crf)

C5_Witness ==
    /\ pc = "b_params"
    /\ preset_doc.VideoQualityType = JInt(2)
    /\ IsConstantQualityForm(ffmpeg_params)
    /\ ffmpeg_params.multipass

\* C6: a run that ends through the summary exits with 0 iff no file has
\* failed, and with 1 otherwise; a run ended by a missing tool, a missing
\* document or a failed creation of the output root exits with 1.
C6_ExitStatus ==
    pc = "exit" =>
      /\ exit_code \in {0, 1}
      /\ (exit_reason \in {"tool", "document", "output_dir"} => exit_code = 1)
      /\ (exit_reason = "summary" =>
            /\ error_count = Cardinality(Failures)
            /\ (exit_code = 0 <=> error_count = 0)
            /\ (Failures # {} => exit_code = 1))

C6_Witness ==
    /\ pc = "exit"
    /\ exit_reason = "summary"
    /\ file_count = 1
    /\ error_count = 1
    /\ exit_code = 1

\* the discovered file a record is about
FileOf(r) == media_files[r.file]

InFlaggedDir(r) == FileOf(r).dir \in ignore_dirs

NothingDoneFor(r) ==
    /\ ~r.built
    /\ r.shown = S_empty
    /\ r.runs = << >>
    /\ r.mkdir = "na"
    /\ r.access = "na"

\* C7 as stated: a discovered file whose own directory holds the ignore flag
\* gets no command and no output directory, and is counted as skipped.
C7_FlaggedFileIsCountedSkipped ==
    /\ \A r \in Recs : InFlaggedDir(r) => NothingDoneFor(r) /\ r.gate = "ignored"
    /\ skipped_count = Cardinality({i \in 1..Len(done) : InFlaggedDir(done[i])})

\* C7, amended: a discovered file whose own directory holds the ignore flag
\* gets no command and no output directory; it is counted as skipped unless
\* it is path-equivalent to the preset document, which the loop passes over
\* before the gate and counts nowhere.  Only the file's own directory decides:
\* a file is skipped for the flag only if its own directory holds it.
C7_FlaggedFileNeverBuilt ==
    /\ \A r \in Recs :
         /\ InFlaggedDir(r) =>
              /\ NothingDoneFor(r)
              /\ (IF Equivalent(FileOf(r)) THEN r.gate = "json" ELSE r.gate = "ignored")
         /\ (r.gate = "ignored" => InFlaggedDir(r))
    /\ skipped_count =
         Cardinality({i \in 1..Len(done) :
                         InFlaggedDir(done[i]) /\ ~Equivalent(FileOf(done[i]))})
    /\ \A i \in 1..Len(done) : done[i].gate \in {"json", "ignored"} => done[i].result = -1

C7_Witness ==
    \E i, j \in 1..Len(done) :
        /\ done[i].gate = "ignored"
        /\ FileOf(done[i]).dir = <<D_sub>>
        /\ << >> \notin ignore_dirs
        /\ done[j].gate = "pass"
        /\ done[j].built
        /\ skipped_count = 1

\* an argument as the claim wants it rendered: in double quotes when it
\* holds whitespace
Whitespace == {SP, "\t"}
Wrapped(arg) ==
    IF \E i \in 1..Len(arg) : arg[i] \in Whitespace
    THEN <<QUOTE>> \o arg \o <<QUOTE>> ELSE arg
RenderedQuoted(cmd) == join_string([i \in 1..Len(cmd) |-> Wrapped(cmd[i])], <<SP>>)

\* C8: in the string that is printed and in the string that is handed to
\* system(), every argument that holds whitespace is wrapped in double quotes.
C8_WhitespaceArgumentsQuoted ==
    /\ cur.built /\ ~cur.is_multipass =>
         cur.shown = RenderedQuoted(build_ffmpeg_command(cur.input_file, cur.output_file,
                                                         ffmpeg_params, args.verbose))
    /\ \A k \in 1..Len(cur.runs) :
         cur.runs[k].command = RenderedQuoted(cur.runs[k].args)

\* the reader of a rendered command: tokens are separated by spaces, a
\* double-quoted segment is taken as it stands, as a shell reads the line
InQuotes(line, i) == Cardinality({j \in 1..(i - 1) : line[j] = QUOTE}) % 2 = 1

Separators(line) == {i \in 1..Len(line) : line[i] = SP /\ ~InQuotes(line, i)}

ParseTokens(line) ==
    LET cuts   == {0, Len(line) + 1} \cup Separators(line)
        starts == {a \in cuts : a <= Len(line) /\ (a + 1) \notin cuts}
        NextCut(a) == CHOOSE b \in cuts : b > a /\ \A c \in cuts : c > a => b <= c
        Start(k) == CHOOSE a \in starts : Cardinality({t \in starts : t < a}) = k - 1
        Unquoted(c) == c # QUOTE
    IN  [k \in 1..Cardinality(starts) |->
            SelectSeq(SubSeq(line, Start(k) + 1, NextCut(Start(k)) - 1), Unquoted)]

\* C9: the rendered single command, read back into tokens, is the argument
\* list it was rendered from, an empty argument and an argument with a space
\* included.
C9_RoundTrip ==
    pc = "b_rendered" => ParseTokens(b_line) = b_cmd

\* C10: in execute mode and never in a dry run, a transcoder is started for
\* a file only after its output directory was found to exist and to be
\* writable and its target, if it exists, was found not to be read-only; a
\* file that fails the check is counted as failed and nothing is run for it.
C10_AccessVerifiedBeforeTranscode ==
    /\ (args.dry_run => \A r \in Recs : r.access = "na")
    /\ \A r \in Recs :
         /\ (r.runs # << >> => r.access = "ok")
         /\ (r.access \notin {"na", "ok"} => r.runs = << >> /\ r.result = 1)
    /\ (cur.runs # << >> => cur.perm \notin {"none", "readonly"})

\* C11: nothing is retried.  Every pass of a file is run at most once, in
\* order; the input is probed exactly once when a pass has returned nonzero,
\* before the next file is started, and never when every pass returned 0;
\* after the probe the file is counted as failed and nothing more is run
\* for it.
C11_NoRetryOneProbe ==
    /\ \A r \in Recs :
         /\ Len(r.runs) <= r.n_cmds
         /\ \A j, k \in 1..Len(r.runs) : r.runs[j].pass = r.runs[k].pass => j = k
         /\ \A k \in 1..Len(r.runs) : r.runs[k].rc # 0 => k = Len(r.runs)
         /\ r.probed \in {0, 1}
         /\ (r.probed = 1 => r.runs # << >> /\ r.runs[Len(r.runs)].rc # 0 /\ r.result = 1)
    /\ \A i \in 1..Len(done) :
         /\ done[i].probed = 1 <=> \E k \in 1..Len(done[i].runs) : done[i].runs[k].rc # 0
         /\ (done[i].probed = 1 => i \in Failures)
    /\ (cur.probed = 0 /\ \E k \in 1..Len(cur.runs) : cur.runs[k].rc # 0) => pc = "failed"

C11_Witness ==
    \E i, j \in 1..Len(done) :
        /\ done[i].is_multipass /\ Len(done[i].runs) = 1 /\ done[i].probed = 1
        /\ done[i].result = 1
        /\ j > i /\ Len(done[j].runs) = 2 /\ done[j].probed = 0 /\ done[j].result = 0

\* the produced files the run has renamed
Renamed == {t.target : t \in {u \in mutations : u.kind = "rename"}}

\* C12: with the forced extension in execute mode, the produced file is
\* renamed only after every invocation of the file has returned 0, never
\* after a failed one; a rename that fails, the produced file being absent
\* included, leaves the file a success: it is counted as processed.
C12_RenameOnlyAfterSuccess ==
    /\ \A r \in Recs :
         /\ r.renamed # "na" =>
              /\ args.force_m4v /\ Dispatch = "execute"
              /\ Len(r.runs) = r.n_cmds
              /\ \A k \in 1..Len(r.runs) : r.runs[k].rc = 0
              /\ r.result = 0
         /\ ((\E k \in 1..Len(r.runs) : r.runs[k].rc # 0) => r.renamed = "na")
         /\ (r.output_file \in Renamed => \E q \in Recs : q.output_file = r.output_file
                                                           /\ q.renamed = "ok")
    /\ \A i \in 1..Len(done) :
         /\ (done[i].renamed \in {"failed", "missing"} => done[i].result = 0 /\ i \notin Failures)
         /\ (args.force_m4v /\ Dispatch = "execute" /\ done[i].runs # << >>
               /\ (\A k \in 1..Len(done[i].runs) : done[i].runs[k].rc = 0)
               => done[i].renamed \in {"ok", "failed", "missing"})
    /\ file_count = Cardinality({i \in 1..Len(done) : done[i].result = 0})

C12_Witness ==
    /\ pc = "exit"
    /\ exit_reason = "summary"
    /\ exit_code = 0
    /\ file_count = 2
    /\ \E i, j \in 1..Len(done) :
         /\ done[i].renamed = "missing" /\ done[i].result = 0
         /\ done[j].renamed = "ok" /\ Len(done[j].runs) = 2

\* the extension of a path: what follows its last dot
Extension(path) ==
    LET dots == {i \in 1..Len(path) : path[i] = "."}
        last == CHOOSE i \in dots : \A j \in dots : j <= i
    IN  IF dots = {} THEN S_empty ELSE SubSeq(path, last + 1, Len(path))

\* C13: in plan, dry-run and execute mode, with or without the forced
\* extension, the output path the commands are built for ends in the
\* translated container format; the forced extension is never the extension
\* of the path the transcoder is told to write.
C13_OutputCarriesContainerFormat ==
    /\ \A r \in Recs :
         r.built => Extension(r.output_file) = ffmpeg_params.format
    /\ \A k \in 1..Len(cur.runs) :
         LET a == cur.runs[k].args
         IN  Extension(a[Len(a)]) # S_m4v /\ Extension(a[Len(a) - 2]) # S_m4v
    /\ (cur.built => ~Contains(cur.shown, S_dot \o S_m4v))

\* the single-invocation template for the builder's inputs, written to `output`
Template(output) ==
    build_ffmpeg_command(b_args.input, output, ffmpeg_params, b_args.verbose)

Pass2AsClaimed ==
    b_cmds[2] = Template(b_args.output) \o <<S_pass, S_2>>

\* the places of an argument in a command
Places(cmd, arg) == {i \in 1..Len(cmd) : cmd[i] = arg}

\* C14 as stated: two invocations; pass 1 is the template built for the null
\* device, the null device left in the output position, followed by
\* -pass 1 -f null and the null device again; pass 2 is the template for the
\* real output followed by -pass 2.
C14_Pass1KeepsNullOutput ==
    pc = "b_multi" =>
      /\ Len(b_cmds) = 2
      /\ b_cmds[1] = Template(get_null_device)
                       \o <<S_pass, S_1, S_f, S_null, get_null_device>>
      /\ Pass2AsClaimed

\* C14, amended: two invocations; pass 1 is the template built for the null
\* device with its output argument removed, followed by -pass 1 -f null and
\* the null device, which so stands once, as the last argument; pass 2 is
\* the template for the real output followed by -pass 2.
C14_Pass1OutputRemoved ==
    pc = "b_multi" =>
      LET built == Template(get_null_device)
      IN  /\ Len(b_cmds) = 2
          /\ b_cmds[1] = SubSeq(built, 1, Len(built) - 1)
                           \o <<S_pass, S_1, S_f, S_null, get_null_device>>
          /\ Places(b_cmds[1], get_null_device) = {Len(b_cmds[1])}
          /\ Len(b_cmds[1]) = Len(built) + 4
          /\ Places(b_cmds[1], b_args.output) = {}
          /\ Pass2AsClaimed
          /\ Places(b_cmds[2], b_args.output) = {Len(b_cmds[2]) - 2}

C14_Witness ==
    /\ pc = "b_multi"
    /\ ffmpeg_params.multipass
    /\ IsBitrateForm(ffmpeg_params)
    /\ ~b_args.verbose
    /\ Len(b_cmds) = 2
    /\ b_cmds[1][Len(b_cmds[1])] = get_null_device
    /\ b_cmds[2][Len(b_cmds[2])] = S_2

\* a fragment split into separate arguments: arguments without a space that
\* give the fragment back when joined by single spaces
IsSplitOf(parts, fragment) ==
    /\ \A i \in 1..Len(parts) : parts[i] # S_empty /\ ~Contains(parts[i], <<SP>>)
    /\ join_string(parts, <<SP>>) = fragment

F_ca == <<"-","c",":","a">>
F_ac == <<"-","a","c">>

\* C15: the arguments of the single command stand in the fixed order:
\* ffmpeg; -analyzeduration and its value; -probesize and its value; -i and
\* the input; -c:v and the codec; the quality fragment split; -preset and
\* its value; -r and the framerate iff the framerate is neither empty nor
\* "auto"; -s and the resolution; the audio codec fragment split; the audio
\* channel fragment split iff it is not empty; -profile:v and the profile iff
\* the profile is neither empty nor "auto"; -v error -stats iff verbose is
\* off; -map 0; the output path last.
C15_FixedArgumentOrder ==
    pc \in {"b_built", "b_rendered"} =>
      LET c == b_cmd
          p == ffmpeg_params
          has_r == p.framerate # S_empty /\ p.framerate # S_auto
          has_profile == p.profile # S_empty /\ p.profile # S_auto
          has_ac == p.audio_channels # S_empty
          quiet == ~b_args.verbose
          at_s == IF has_r THEN 16 ELSE 14
          at_audio == at_s + 2
          at_tail == Len(c) - 2 - (IF quiet THEN 3 ELSE 0)
          at_profile == at_tail - (IF has_profile THEN 2 ELSE 0)
          at_ac == at_profile - (IF has_ac THEN 2 ELSE 0)
      IN  /\ SubSeq(c, 1, 9) = <<S_ffmpeg, S_analyzeduration, IntToString(analyze_duration),
                                  S_probesize, IntToString(probe_size), S_i, b_args.input,
                                  S_cv, p.vcodec>>
          /\ IsSplitOf(SubSeq(c, 10, 11), p.quality)
          /\ SubSeq(c, 12, 13) = <<S_preset, p.preset>>
          /\ (has_r <=> Places(c, S_r) # {})
          /\ (has_r => SubSeq(c, 14, 15) = <<S_r, p.framerate>>)
          /\ SubSeq(c, at_s, at_s + 1) = <<S_s, p.resolution>>
          /\ c[at_audio] = F_ca
          /\ IsSplitOf(SubSeq(c, at_audio, at_ac - 1), p.acodec)
          /\ (has_ac <=> Places(c, F_ac) # {})
          /\ (has_ac => IsSplitOf(SubSeq(c, at_ac, at_ac + 1), p.audio_channels))
          /\ (has_profile <=> Places(c, S_profilev) # {})
          /\ (has_profile => SubSeq(c, at_profile, at_profile + 1) = <<S_profilev, p.profile>>)
          /\ (quiet <=> Places(c, S_v) # {})
          /\ (quiet <=> Places(c, S_stats) # {})
          /\ (quiet => SubSeq(c, at_tail, at_tail + 2) = <<S_v, S_error, S_stats>>)
          /\ SubSeq(c, Len(c) - 2, Len(c)) = <<S_map, S_0, b_args.output>>

C15_Witness ==
    /\ pc = "b_built"
    /\ ~b_args.verbose
    /\ Places(b_cmd, S_r) = {14}
    /\ Places(b_cmd, F_ac) # {}
    /\ Places(b_cmd, S_profilev) # {}
    /\ Len(b_cmd) = 31

\* the redirection was set up: the console's buffer has been saved
Redirected == cout_buffer # "null"

\* C16: once the log file is opened, std::cout writes to it for as long as
\* the run goes on, and writes to the console again when the run has ended,
\* by whichever way it ended: the summary, the preset display, the failed
\* creation of the output root, the document that cannot be loaded.
C16_LogRestoredOnEveryExit ==
    Redirected =>
      /\ (pc # "exit" => cout = "log")
      /\ (pc = "exit" => cout = "console")

\* the preset display goes no further than the display: no directory is
\* resolved, no walk is made, no file is gated or processed
NothingBeyondDisplay ==
    /\ pc \in {"start", "ffprobe", "log", "load", "preset", "exit"}
    /\ tree = << >> /\ media_files = << >>
    /\ done = << >> /\ cur = NoCur
    /\ file_count = 0 /\ skipped_count = 0 /\ error_count = 0
    /\ (pc = "exit" => exit_reason \in {"tool", "document", "show_preset"})
    /\ (exit_reason = "show_preset" => exit_code = 0)

\* C17 as stated: with the preset display asked for, the run ends with
\* status 0 after the display and creates no file and no directory, whatever
\* the other options, the log option included; nothing is walked or processed.
C17_PresetDisplayTouchesNothing ==
    args.show_preset => NothingBeyondDisplay /\ mutations = {}

\* C17, amended: with the preset display asked for, the run ends with status
\* 0 after the display; it creates no directory and no file other than the
\* file named by the log option, which is opened before the display; nothing
\* is walked or processed.
C17_PresetDisplayOnlyOpensLog ==
    args.show_preset =>
      /\ NothingBeyondDisplay
      /\ \A t \in mutations : t.kind = "logfile" /\ args.log_file
      /\ (~args.log_file => mutations = {})

C17_Witness ==
    /\ args.show_preset /\ args.execute /\ args.log_file
    /\ pc = "exit"
    /\ exit_reason = "show_preset"
    /\ exit_code = 0
    /\ mutations # {}

\* a directory exists with every directory above it
ExistsRecursively(path) == \A k \in 1..Len(path) : SubSeq(path, 1, k) \in dirs

\* C18: for a file that has passed the gates and whose mirrored output
\* directory is missing: outside a dry run the directory is created, with
\* the directories above it, before the command is built, and when that
\* fails the file is counted as failed and no command is built, printed or
\* run for it; in a dry run the creation is only announced and the directory
\* is still missing afterwards.
C18_OutputDirectoryEnsured ==
    /\ \A r \in Recs :
         /\ (r.mkdir = "created" => ~args.dry_run /\ ExistsRecursively(r.output_subdir))
         /\ (r.mkdir = "failed" =>
               /\ ~args.dry_run
               /\ ~r.built /\ r.shown = S_empty /\ r.runs = << >>
               /\ r.access = "na" /\ r.result = 1)
         /\ (r.mkdir = "announced" => args.dry_run /\ r.output_subdir \notin dirs)
         /\ (r.gate = "pass" /\ r.mkdir = "na" => r.output_subdir \in dirs)
         /\ (r.built /\ ~args.dry_run => r.output_subdir \in dirs)
         /\ (r.built /\ args.dry_run /\ r.output_subdir \notin dirs => r.mkdir = "announced")
    /\ \A i \in 1..Len(done) : done[i].mkdir = "failed" => i \in Failures

C18_Witness ==
    \E i, j \in 1..Len(done) :
        /\ done[i].mkdir = "failed" /\ done[i].result = 1 /\ ~done[i].built
        /\ done[j].gate = "pass" /\ done[j].built /\ done[j].mkdir = "na"
        /\ error_count = 1

\* the discovered files that are the preset document
PresetFiles == {i \in 1..Len(media_files) : Equivalent(media_files[i])}

\* one step of the loop: a file leaves it
LoopStep == Len(done') = Len(done) + 1

Grown(before, after) == after - before

\* the counters after a loop step: exactly one has grown, by one, or none
\* when the file is the preset document
CountedOnce ==
    LET grown == <<Grown(file_count, file_count'), Grown(skipped_count, skipped_count'),
                   Grown(error_count, error_count')>>
    IN  IF Len(done') \in PresetFiles
        THEN grown = <<0, 0, 0>>
        ELSE grown \in {<<1, 0, 0>>, <<0, 1, 0>>, <<0, 0, 1>>}

\* C19: every loop step adds one to exactly one of the three counters, or
\* to none when the file is path-equivalent to the preset document; no
\* counter ever decreases or moves outside a loop step; at the summary the
\* three add up to the discovered files less those equivalent to the preset
\* document.
C19_CounterConservation ==
    /\ [][ /\ (LoopStep => CountedOnce)
           /\ (~LoopStep => UNCHANGED counters)
           /\ file_count' >= file_count
           /\ skipped_count' >= skipped_count
           /\ error_count' >= error_count ]_vars
    /\ [](exit_reason = "summary" =>
            file_count + skipped_count + error_count
              = Len(media_files) - Cardinality(PresetFiles))

C19_Witness ==
    /\ pc = "exit"
    /\ exit_reason = "summary"
    /\ Len(media_files) = 3
    /\ PresetFiles = {1}
    /\ skipped_count = 1
    /\ file_count + error_count = 1

\* C20: within one batch no two discovered files are given the same output
\* path: the commands built for two different input files never name the
\* same output file.
C20_OutputPathsDistinct ==
    \A r, q \in Recs :
        r.built /\ q.built /\ r.input_file # q.input_file
          => r.output_file # q.output_file

\* the file lies in the output directory or below it
UnderOutputDir(f) == IsBelow(input_dir \o f.dir, output_dir)

\* C21: no file located under the output directory is ever passed to the
\* command builder as an input, whether it was written earlier in the same
\* run or was there from an earlier run.
C21_OutputsNeverInputs ==
    \A r \in Recs : r.built => ~UnderOutputDir(FileOf(r))

=============================================================================
